---- MODULE Spec2Model ----
(***************************************************************************)
(* A model of make_injection_pipeline                                      *)
(* (python/lsst/source/injection/utils/make_injection_pipeline.py).        *)
(*                                                                         *)
(* The function is modelled as a sequential program: one action per loop   *)
(* iteration or straight-line block, sequenced by pc, which ends at "done" *)
(* (the function returned) or "error" (it raised).  The Pipeline is a      *)
(* record of tasks (label -> task, each with its declared connection names *)
(* and its config override record) and labelled subsets (name -> labels).  *)
(* Dataset type names, labels, fields and override keys are strings, and   *)
(* prefix + name is string concatenation.                                  *)
(*                                                                         *)
(* The reference pipeline is taken as a Pipeline object (line 102), which  *)
(* the function edits in place; excluded_tasks is taken as a set of labels *)
(* (a string is split into one at line 110); no instrument is given.  Of   *)
(* lsst.pipe.base the model holds what the function calls, each operation  *)
(* by what it does to the tasks, the subsets and the override records.     *)
(* toExpandedPipeline is modelled by the order it yields the tasks in; the *)
(* errors it raises for a pipeline it cannot expand are not.               *)
(***************************************************************************)
EXTENDS Naturals, Sequences, FiniteSets, TLC

VARIABLES
    pc,                               \* position in make_injection_pipeline
    reference_pipeline,               \* the Pipeline as it was handed in
    injection_argument,               \* injection_pipeline as it was handed in
    pipeline,                         \* the Pipeline being edited in place
    dataset_type_name,                \* argument: the seed
    injection_pipeline,               \* None, a Pipeline or a location; reassigned at lines 186-192
    exclude_subsets,                  \* argument
    excluded_tasks,                   \* argument (already a set of labels)
    pending,                          \* labels the exclusion loop has yet to take
    not_excluded_tasks,
    all_connection_type_names,
    injected_types,
    precursor_injection_task_labels,
    expanded,                         \* what toExpandedPipeline() yields (label -> TaskDef)
    unvisited,                        \* labels the propagation loop has yet to take
    log,                              \* the logger's records, in order
    error                             \* the exception that ended the call, or "none"

vars == <<pc, reference_pipeline, injection_argument, pipeline, dataset_type_name, injection_pipeline,
          exclude_subsets, excluded_tasks, pending, not_excluded_tasks,
          all_connection_type_names, injected_types, precursor_injection_task_labels,
          expanded, unvisited, log, error>>

----------------------------------------------------------------------------
(* Bounds of the model. *)

NumTasks == 3           \* tasks of a generated reference pipeline
MaxInputs == 2          \* input connections of one task
MaxSubsetSize == 2      \* labels of one subset of the reference pipeline
MaxExcluded == 2        \* labels asked to be excluded
MaxInjectionTasks == 2  \* tasks of a supplied injection pipeline

----------------------------------------------------------------------------
(* Small helpers on functions and sets. *)

Range(f) == {f[k] : k \in DOMAIN f}

Restrict(f, S) == [k \in S |-> f[k]]

\* f with key k set to v (a dict assignment: a new key is added, an old one replaced).
Put(f, k, v) == [x \in DOMAIN f \cup {k} |-> IF x = k THEN v ELSE f[x]]

EmptyMap == [k \in {} |-> {}]

One(k, v) == [x \in {k} |-> v]

----------------------------------------------------------------------------
(* The arguments' defaults. *)

\* Line 53: the default of the prefix argument.
prefix == "injected_"

----------------------------------------------------------------------------
(* lsst.pipe.base: what the function uses of Pipeline and TaskDef.          *)
(*                                                                         *)
(* A task of a Pipeline is a record                                        *)
(*   taskClass        "PipelineTask" or "AnalysisPipelineTask"             *)
(*   inputs, outputs  field -> declared dataset type name                  *)
(*   ConnectionsClass the fields that are attributes of the connections    *)
(*                    class (a field added when the connections are        *)
(*                    instantiated is not among them)                      *)
(*   outputName       the declared connections.outputName (analysis tasks) *)
(*   config           the config override record: key -> value             *)
(***************************************************************************)

ConnectionKey(field) == "connections." \o field

\* A connection's name with the task's config applied: the override shadows
\* the declared name.
ConnectionName(task, declared, field) ==
    IF ConnectionKey(field) \in DOMAIN task.config
    THEN task.config[ConnectionKey(field)]
    ELSE declared[field]

OutputName(task) ==
    IF ConnectionKey("outputName") \in DOMAIN task.config
    THEN task.config[ConnectionKey("outputName")]
    ELSE task.outputName

\* An analysis task's output connections are named from connections.outputName
\* (lines 140-146: "This field is prepended to all Analysis Tools connections").
AnalysisOutputs(task) == One("metrics", OutputName(task) \o "_metrics")

\* The TaskDef of a task: its connections resolved through its config.
TaskDef(label, task) ==
    [label |-> label,
     taskClass |-> task.taskClass,
     ConnectionsClass |-> task.ConnectionsClass,
     outputName |-> OutputName(task),
     inputs |-> [f \in DOMAIN task.inputs |-> ConnectionName(task, task.inputs, f)],
     outputs |-> IF task.taskClass = "AnalysisPipelineTask"
                 THEN AnalysisOutputs(task)
                 ELSE [f \in DOMAIN task.outputs |-> ConnectionName(task, task.outputs, f)]]

\* pipeline.toExpandedPipeline(): every task's TaskDef, built once from the
\* Pipeline as it is when the loop starts.
ToExpandedPipeline(p) == [l \in DOMAIN p.tasks |-> TaskDef(l, p.tasks[l])]

\* len(pipeline)
PipelineLen(p) == Cardinality(DOMAIN p.tasks)

\* pipeline.findSubsetsWithLabel(label); raises ValueError when label is no task.
FindSubsetsWithLabel(p, label) == {s \in DOMAIN p.subsets : label \in p.subsets[s]}

\* pipeline.removeLabelFromSubset(subset, label)
RemoveLabelFromSubset(p, subset, label) ==
    [p EXCEPT !.subsets[subset] = @ \ {label}]

\* pipeline.addLabelToSubset(subset, label): the subset is a set of labels.
AddLabelToSubset(p, subset, label) ==
    [p EXCEPT !.subsets[subset] = @ \cup {label}]

\* pipeline.removeTask(label); raises KeyError when label is no task.
RemoveTask(p, label) ==
    [p EXCEPT !.tasks = Restrict(@, DOMAIN @ \ {label})]

\* pipeline.addConfigOverride(label, key, value)
AddConfigOverride(p, label, key, value) ==
    [p EXCEPT !.tasks[label].config = Put(@, key, value)]

\* pipeline.mergePipeline(pipeline2); raises when a label is in both.
MergePipeline(p, p2) ==
    [p EXCEPT !.tasks = [l \in DOMAIN p.tasks \cup DOMAIN p2.tasks |->
                            IF l \in DOMAIN p2.tasks THEN p2.tasks[l] ELSE p.tasks[l]]]

----------------------------------------------------------------------------
(* Lines 32-37. *)

\* getattr(conns, field): the connection of a TaskDef under that field name.
Conn(conns, field) ==
    IF field \in DOMAIN conns.inputs THEN conns.inputs[field] ELSE conns.outputs[field]

_get_dataset_type_names(conns, fields) == {Conn(conns, field) : field \in fields}

----------------------------------------------------------------------------
(* Lines 108-132: the exclusion loop, one iteration per action.             *)

Warning(msg, args) == [level |-> "WARNING", msg |-> msg, args |-> args]

Info(msg, args) == [level |-> "INFO", msg |-> msg, args |-> args]

\* RemoveFromHostSubsets with lines 114-120 left out.
KeepInHostSubsets(p, task_label) == p

\* Lines 114-120: the label leaves every subset that holds it; a label that is
\* no task makes findSubsetsWithLabel raise ValueError, which is passed over.
RECURSIVE RemoveFromSubsets(_, _, _)
RemoveFromSubsets(p, host_subsets, task_label) ==
    IF host_subsets = {} THEN p
    ELSE LET host_subset == CHOOSE s \in host_subsets : TRUE
         IN RemoveFromSubsets(RemoveLabelFromSubset(p, host_subset, task_label),
                              host_subsets \ {host_subset}, task_label)

RemoveFromHostSubsets(p, task_label) ==
    IF task_label \in DOMAIN p.tasks
    THEN RemoveFromSubsets(p, FindSubsetsWithLabel(p, task_label), task_label)
    ELSE p

\* NotExcluded with the KeyError swallowed and nothing recorded.
ForgetNotExcluded(p, not_found, task_label) == not_found

\* Lines 122-125: the set of labels not found, after trying to remove this one.
NotExcluded(p, not_found, task_label) ==
    IF task_label \in DOMAIN p.tasks THEN not_found ELSE not_found \cup {task_label}

ExcludeTask(task_label) ==
    /\ pc = "exclude"
    /\ task_label \in pending
    /\ LET p1 == RemoveFromHostSubsets(pipeline, task_label)
       IN /\ pipeline' = IF task_label \in DOMAIN p1.tasks
                         THEN RemoveTask(p1, task_label)
                         ELSE p1
          /\ not_excluded_tasks' = NotExcluded(p1, not_excluded_tasks, task_label)
    /\ pending' = pending \ {task_label}
    /\ UNCHANGED <<pc, reference_pipeline, injection_argument, dataset_type_name, injection_pipeline,
                   exclude_subsets, excluded_tasks, all_connection_type_names,
                   injected_types, precursor_injection_task_labels, expanded,
                   unvisited, log, error>>

\* Lines 126-132: the one warning of the exclusion pass.
ExclusionLog(not_found) ==
    IF Cardinality(not_found) > 0
    THEN <<Warning("marked for exclusion not found in the reference pipeline",
                   <<IF Cardinality(not_found) = 1 THEN "Task" ELSE "Tasks", not_found>>)>>
    ELSE <<>>

\* Lines 126-139: the loop is over; warn, set up the working sets and expand
\* the pipeline for the propagation loop.
StartPropagation ==
    /\ pc = "exclude"
    /\ pending = {}
    /\ log' = log \o ExclusionLog(not_excluded_tasks)
    /\ all_connection_type_names' = {}
    /\ injected_types' = {dataset_type_name}
    /\ precursor_injection_task_labels' = {}
    /\ expanded' = ToExpandedPipeline(pipeline)
    /\ unvisited' = DOMAIN pipeline.tasks
    /\ pc' = "propagate"
    /\ UNCHANGED <<reference_pipeline, injection_argument, pipeline, dataset_type_name, injection_pipeline,
                   exclude_subsets, excluded_tasks, pending, not_excluded_tasks, error>>

----------------------------------------------------------------------------
(* Lines 139-176: the propagation loop, one task per action.                *)

\* Ready for a loop that takes the tasks in any order.
AnyOrder(label) == TRUE

\* Line 139: toExpandedPipeline() yields the tasks in topological order, so
\* a task comes only after every task that produces one of its inputs.
Ready(label) ==
    \A other \in unvisited \ {label} :
        Range(expanded[other].outputs) \cap Range(expanded[label].inputs) = {}

\* IsAnalysis for a loop without the analysis branch.
NeverAnalysis(taskDef) == FALSE

\* Line 147
IsAnalysis(taskDef) == taskDef.taskClass = "AnalysisPipelineTask"

\* Lines 148-150
PrefixOutputName(p, taskDef) ==
    AddConfigOverride(p, taskDef.label, ConnectionKey("outputName"),
                      prefix \o taskDef.outputName)

\* Line 157
IsPrecursor(output_types) == dataset_type_name \in output_types

\* IsAffected testing the inputs against the seed alone.
AffectedBySeedOnly(input_types, injected) == dataset_type_name \in input_types

\* Line 161
IsAffected(input_types, injected) == Cardinality(input_types \cap injected) > 0

\* GrowInjected assigning where the code unites.
ReplaceInjected(injected, output_types) == output_types

\* Line 162
GrowInjected(injected, output_types) == injected \cup output_types

ConnFields(taskDef) == DOMAIN taskDef.inputs \cup DOMAIN taskDef.outputs

\* Line 165
HasAttr(taskDef, field) == field \in taskDef.ConnectionsClass

\* Lines 164-168: the fields of an affected task that get the prefix.
RenamedFields(taskDef, injected) ==
    {field \in ConnFields(taskDef) :
        HasAttr(taskDef, field) /\ Conn(taskDef, field) \in injected}

\* Lines 169-176: the fields of an affected task that are only warned about.
DynamicFields(taskDef) ==
    {field \in ConnFields(taskDef) : ~HasAttr(taskDef, field)}

RECURSIVE AddPrefixes(_, _, _)
AddPrefixes(p, taskDef, fields) ==
    IF fields = {} THEN p
    ELSE LET field == CHOOSE f \in fields : TRUE
         IN AddPrefixes(AddConfigOverride(p, taskDef.label, ConnectionKey(field),
                                          prefix \o Conn(taskDef, field)),
                        taskDef, fields \ {field})

\* The orders in which a set can be iterated.
Orders(S) == {q \in [1..Cardinality(S) -> S] : Range(q) = S}

VisitTask(label) ==
    /\ pc = "propagate"
    /\ label \in unvisited
    /\ Ready(label)
    /\ unvisited' = unvisited \ {label}
    /\ LET taskDef == expanded[label]
           input_types == _get_dataset_type_names(taskDef, DOMAIN taskDef.inputs)
           output_types == _get_dataset_type_names(taskDef, DOMAIN taskDef.outputs)
           grown == GrowInjected(injected_types, output_types)
       IN IF IsAnalysis(taskDef)
          THEN /\ pipeline' = PrefixOutputName(pipeline, taskDef)
               /\ UNCHANGED <<all_connection_type_names, injected_types,
                              precursor_injection_task_labels, log>>
          ELSE /\ all_connection_type_names' =
                      all_connection_type_names \cup input_types \cup output_types
               /\ precursor_injection_task_labels' =
                      IF IsPrecursor(output_types)
                      THEN precursor_injection_task_labels \cup {label}
                      ELSE precursor_injection_task_labels
               /\ IF IsAffected(input_types, injected_types)
                  THEN /\ injected_types' = grown
                       /\ pipeline' = AddPrefixes(pipeline, taskDef,
                                                  RenamedFields(taskDef, grown))
                       /\ \E order \in Orders(DynamicFields(taskDef)) :
                             log' = log \o [i \in DOMAIN order |->
                                       Warning("Dynamic connection is not supported here",
                                               <<order[i], label>>)]
                  ELSE UNCHANGED <<injected_types, pipeline, log>>
    /\ UNCHANGED <<pc, reference_pipeline, injection_argument, dataset_type_name, injection_pipeline,
                   exclude_subsets, excluded_tasks, pending, not_excluded_tasks,
                   expanded, error>>

\* Lines 177-182: after the loop, the seed must have been seen.
SeedFound == dataset_type_name \in all_connection_type_names

ExistenceCheck ==
    /\ pc = "propagate"
    /\ unvisited = {}
    /\ IF SeedFound
       THEN pc' = "infer" /\ error' = error
       ELSE pc' = "error" /\ error' = "RuntimeError: dataset type not found"
    /\ UNCHANGED <<reference_pipeline, injection_argument, pipeline, dataset_type_name, injection_pipeline,
                   exclude_subsets, excluded_tasks, pending, not_excluded_tasks,
                   all_connection_type_names, injected_types,
                   precursor_injection_task_labels, expanded, unvisited, log>>

----------------------------------------------------------------------------
(* Lines 184-206: the injection pipeline inferred from the seed.            *)

NoPipeline == [kind |-> "None", location |-> "", tasks |-> EmptyMap]

\* Line 185, line 209: "not injection_pipeline" / "if injection_pipeline".
\* None is falsy; a non-empty location string is truthy; a Pipeline object has
\* __len__ and no __bool__, so its truth value is len(pipeline) != 0.
Truthy(inj) ==
    CASE inj.kind = "None" -> FALSE
      [] inj.kind = "str" -> TRUE
      [] inj.kind = "Pipeline" -> PipelineLen(inj) # 0

\* Lines 186-200: the match statement; "" stands for no location.
StubLocation(name) ==
    CASE name = "postISRCCD" -> "$SOURCE_INJECTION_DIR/pipelines/inject_exposure.yaml"
      [] name \in {"icExp", "calexp"} -> "$SOURCE_INJECTION_DIR/pipelines/inject_visit.yaml"
      [] name \in {"deepCoadd", "deepCoadd_calexp", "goodSeeingCoadd"} ->
             "$SOURCE_INJECTION_DIR/pipelines/inject_coadd.yaml"
      [] OTHER -> ""

\* An injection task as a stub or a supplied pipeline declares it.
InjectionTask(input_name, output_name) ==
    [taskClass |-> "PipelineTask",
     inputs |-> One("input_exposure", input_name),
     outputs |-> One("output_exposure", output_name),
     ConnectionsClass |-> {"input_exposure", "output_exposure"},
     outputName |-> "",
     config |-> EmptyMap]

\* The canonical stubs under pipelines/: one injection task each.
StubPipeline(location) ==
    CASE location = "$SOURCE_INJECTION_DIR/pipelines/inject_exposure.yaml" ->
             One("inject_exposure", InjectionTask("postISRCCD", "injected_postISRCCD"))
      [] location = "$SOURCE_INJECTION_DIR/pipelines/inject_visit.yaml" ->
             One("inject_visit", InjectionTask("calexp", "injected_calexp"))
      [] location = "$SOURCE_INJECTION_DIR/pipelines/inject_coadd.yaml" ->
             One("inject_coadd", InjectionTask("deepCoadd", "injected_deepCoadd"))

InferInjectionPipeline ==
    /\ pc = "infer"
    /\ pc' = "merge"
    /\ IF ~Truthy(injection_pipeline)
       THEN LET location == StubLocation(dataset_type_name)
            IN IF location # ""
               THEN /\ injection_pipeline' =
                          [kind |-> "str", location |-> location,
                           tasks |-> StubPipeline(location)]
                    /\ log' = Append(log, Info("used to infer injection pipeline",
                                               <<dataset_type_name, location>>))
               ELSE /\ injection_pipeline' = injection_pipeline
                    /\ log' = Append(log, Warning("Unable to infer injection pipeline stub",
                                                  <<dataset_type_name>>))
       ELSE UNCHANGED <<injection_pipeline, log>>
    /\ UNCHANGED <<reference_pipeline, injection_argument, pipeline, dataset_type_name, exclude_subsets,
                   excluded_tasks, pending, not_excluded_tasks, all_connection_type_names,
                   injected_types, precursor_injection_task_labels, expanded, unvisited,
                   error>>

----------------------------------------------------------------------------
(* Lines 208-236: the merge.                                                *)

\* Line 214
ArityOk(pipeline2) == PipelineLen(pipeline2) = 1

\* mergePipeline raises on a label that both pipelines hold.
LabelCollision(p, pipeline2) == DOMAIN p.tasks \cap DOMAIN pipeline2.tasks # {}

\* RewriteBoundary with the prefix on both bindings.
PrefixBothBoundaries(p, label) ==
    AddConfigOverride(
        AddConfigOverride(p, label, ConnectionKey("input_exposure"),
                          prefix \o dataset_type_name),
        label, ConnectionKey("output_exposure"), prefix \o dataset_type_name)

\* Lines 222-227: the two boundary overrides of the injection task.
RewriteBoundary(p, label) ==
    AddConfigOverride(
        AddConfigOverride(p, label, ConnectionKey("input_exposure"), dataset_type_name),
        label, ConnectionKey("output_exposure"), prefix \o dataset_type_name)

\* Lines 232-233
RECURSIVE AddToSubsets(_, _, _)
AddToSubsets(p, precursor_subsets, injection_label) ==
    IF precursor_subsets = {} THEN p
    ELSE LET subset == CHOOSE s \in precursor_subsets : TRUE
         IN AddToSubsets(AddLabelToSubset(p, subset, injection_label),
                         precursor_subsets \ {subset}, injection_label)

\* Lines 230-233
RECURSIVE AddToPrecursorSubsets(_, _, _)
AddToPrecursorSubsets(p, labels, injection_label) ==
    IF labels = {} THEN p
    ELSE LET label == CHOOSE l \in labels : TRUE
         IN AddToPrecursorSubsets(
                AddToSubsets(p, FindSubsetsWithLabel(p, label), injection_label),
                labels \ {label}, injection_label)

\* UpdateSubsets without the exclude_subsets test.
UpdateSubsetsAlways(p, injection_label) ==
    AddToPrecursorSubsets(p, precursor_injection_task_labels, injection_label)

\* Lines 229-233
UpdateSubsets(p, injection_label) ==
    IF ~exclude_subsets
    THEN AddToPrecursorSubsets(p, precursor_injection_task_labels, injection_label)
    ELSE p

MergeInjectionPipeline ==
    /\ pc = "merge"
    /\ IF ~Truthy(injection_pipeline)
       THEN /\ pc' = "done"
            /\ log' = Append(log, Info("Made an injection pipeline", <<PipelineLen(pipeline)>>))
            /\ UNCHANGED <<pipeline, error>>
       ELSE IF ~ArityOk(injection_pipeline)
       THEN /\ pc' = "error"
            /\ error' = "RuntimeError: only one task is allowed"
            /\ UNCHANGED <<pipeline, log>>
       ELSE IF LabelCollision(pipeline, injection_pipeline)
       THEN /\ pc' = "error"
            /\ error' = "ValueError: task labels must be unique"
            /\ UNCHANGED <<pipeline, log>>
       ELSE LET injection_label == CHOOSE l \in DOMAIN injection_pipeline.tasks : TRUE
                merged == MergePipeline(pipeline, injection_pipeline)
                p == UpdateSubsets(RewriteBoundary(merged, injection_label), injection_label)
            IN /\ pipeline' = p
               /\ pc' = "done"
               /\ log' = Append(log, Info("Made an injection pipeline", <<PipelineLen(p)>>))
               /\ error' = error
    /\ UNCHANGED <<reference_pipeline, injection_argument, dataset_type_name, injection_pipeline,
                   exclude_subsets, excluded_tasks, pending, not_excluded_tasks,
                   all_connection_type_names, injected_types,
                   precursor_injection_task_labels, expanded, unvisited>>

----------------------------------------------------------------------------
(* The calls the model explores.                                           *)
(*                                                                         *)
(* A generated reference pipeline has NumTasks tasks, labelled A, B, ...   *)
(* Task k has one output, OutputSeq[k], and up to MaxInputs inputs among   *)
(* "w" (which no task produces) and the outputs of the tasks before it, so *)
(* every reference pipeline is acyclic.                                    *)
(***************************************************************************)

LabelSeq == <<"A", "B", "C", "D", "E">>

OutputSeq == <<"calexp", "src", "srcMatch", "objectTable", "objectTable_tract">>

InFieldSeq == <<"in1", "in2", "in3">>

TaskLabels == {LabelSeq[k] : k \in 1..NumTasks}

NameRank(name) == IF name = "w" THEN 0 ELSE CHOOSE j \in 1..Len(OutputSeq) : OutputSeq[j] = name

\* The inputs a task whose output is OutputSeq[k] may have.
InputMaps(k, max_inputs) ==
    LET names == {"w"} \cup {OutputSeq[j] : j \in 1..(k - 1)}
    IN UNION {{m \in [{InFieldSeq[i] : i \in 1..n} -> names] :
                  \A i \in 1..(n - 1) :
                      NameRank(m[InFieldSeq[i]]) < NameRank(m[InFieldSeq[i + 1]])} :
              n \in 0..max_inputs}

StaticTask(input_map, output_name) ==
    [taskClass |-> "PipelineTask",
     inputs |-> input_map,
     outputs |-> One("out", output_name),
     ConnectionsClass |-> DOMAIN input_map \cup {"out"},
     outputName |-> "",
     config |-> EmptyMap]

\* The tasks label k of a generated reference pipeline may be.
TaskChoices(k) == {StaticTask(m, OutputSeq[k]) : m \in InputMaps(k, MaxInputs)}

TaskMaps ==
    {t \in [TaskLabels -> UNION {TaskChoices(k) : k \in 1..NumTasks}] :
        \A k \in 1..NumTasks : t[LabelSeq[k]] \in TaskChoices(k)}

\* Section 8's scenario: A -> B -> C over calexp -> src -> srcMatch, and a
\* sibling D that consumes only "w".
ChainTasks ==
    [l \in {"A", "B", "C", "D"} |->
        CASE l = "A" -> StaticTask(EmptyMap, "calexp")
          [] l = "B" -> StaticTask(One("in1", "calexp"), "src")
          [] l = "C" -> StaticTask(One("in1", "src"), "srcMatch")
          [] l = "D" -> StaticTask(One("in1", "w"), "objectTable")]

ChainLabels == DOMAIN ChainTasks

\* The same with B a second producer of calexp, from "w".
TwoProducerTasks ==
    [ChainTasks EXCEPT !["B"] = StaticTask(One("in1", "w"), "calexp"),
                       !["C"] = StaticTask(One("in1", "calexp"), "srcMatch")]

\* One task of the pipeline made different: an analysis task, a task with a
\* connection that is no attribute of its connections class, a task that
\* already carries a config override of its output connection, or a task
\* with a second output.
AsAnalysis(task) ==
    [task EXCEPT !.taskClass = "AnalysisPipelineTask",
                 !.outputName = task.outputs["out"],
                 !.outputs = EmptyMap,
                 !.ConnectionsClass = {}]

WithDynamicField(task, field) == [task EXCEPT !.ConnectionsClass = @ \ {field}]

WithOverride(task) == [task EXCEPT !.config = One(ConnectionKey("out"), "icSrc")]

\* A second output, an attribute of the connections class or not.
WithSecondOutput(task, is_attribute) ==
    [task EXCEPT !.outputs = Put(@, "out2", @["out"] \o "_aux"),
                 !.ConnectionsClass = IF is_attribute THEN @ \cup {"out2"} ELSE @]

Variants(task) ==
    {AsAnalysis(task), WithDynamicField(task, "out"), WithOverride(task),
     WithSecondOutput(task, TRUE), WithSecondOutput(task, FALSE)}
    \cup (IF "in1" \in DOMAIN task.inputs THEN {WithDynamicField(task, "in1")} ELSE {})

\* The task maps that differ from t in at most one task.
WithOneVariant(t) ==
    {t} \cup UNION {{[t EXCEPT ![l] = v] : v \in Variants(t[l])} : l \in DOMAIN t}

SubsetNames == {"step1", "step2"}

SubsetMaps == [SubsetNames -> {S \in SUBSET ChainLabels : Cardinality(S) <= MaxSubsetSize}]

NoSubsets == [s \in SubsetNames |-> {}]

\* Labels to exclude: tasks of the pipeline and two of the default labels,
\* which the reference pipelines here do not have.
ExcludedSets ==
    {S \in SUBSET (ChainLabels \cup {"jointcal", "fgcmFitCycle"}) : Cardinality(S) <= MaxExcluded}

InjectionLabelSeq == <<"inject_visit", "inject_extra", "inject_more">>

InjectionTaskMap(n) ==
    [l \in {InjectionLabelSeq[i] : i \in 1..n} |-> InjectionTask("exposure", "injected_exposure")]

\* The injection_pipeline argument: None, or a Pipeline object or a location
\* of a pipeline with 0..MaxInjectionTasks tasks, or a one-task pipeline whose
\* task declares other names or has the label of a reference task.
InjectionPipelines ==
    {NoPipeline}
    \cup {[kind |-> k, location |-> IF k = "str" THEN "inject.yaml" ELSE "",
           tasks |-> InjectionTaskMap(n)] :
             k \in {"Pipeline", "str"}, n \in 0..MaxInjectionTasks}
    \cup {[kind |-> "Pipeline", location |-> "",
           tasks |-> One("inject_coadd", InjectionTask("deepCoadd", "src"))],
          [kind |-> "Pipeline", location |-> "",
           tasks |-> One("A", InjectionTask("exposure", "injected_exposure"))]}

InitWith(task_maps, subset_maps, seeds, excluded_sets, injection_pipelines, flags) ==
    /\ pc = "exclude"
    /\ \E t \in task_maps, s \in subset_maps :
          reference_pipeline = [tasks |-> t, subsets |-> s]
    /\ pipeline = reference_pipeline
    /\ dataset_type_name \in seeds
    /\ excluded_tasks \in excluded_sets
    /\ injection_pipeline \in injection_pipelines
    /\ injection_argument = injection_pipeline
    /\ exclude_subsets \in flags
    /\ pending = excluded_tasks
    /\ not_excluded_tasks = {}
    /\ all_connection_type_names = {}
    /\ injected_types = {}
    /\ precursor_injection_task_labels = {}
    /\ expanded = EmptyMap
    /\ unvisited = {}
    /\ log = <<>>
    /\ error = "none"

\* Propagation over every pipeline shape, with nothing excluded or merged.
InitPropagation ==
    InitWith(UNION {WithOneVariant(t) : t \in TaskMaps} \cup WithOneVariant(ChainTasks),
             {NoSubsets},
             {"calexp", "src", "w", "nonexistent"}, {{}}, {NoPipeline}, {FALSE})

\* Exclusion over every set of labels and every subset membership.
InitExclusion ==
    InitWith({ChainTasks, [ChainTasks EXCEPT !["B"] = AsAnalysis(@)]}, SubsetMaps,
             {"calexp", "nonexistent"}, ExcludedSets, {NoPipeline}, {FALSE})

\* The merge over every injection pipeline and every subset membership.
InitMerge ==
    InitWith({ChainTasks, TwoProducerTasks}, SubsetMaps,
             {"calexp", "src"}, {{}, {"A"}}, InjectionPipelines, BOOLEAN)

Init == InitPropagation \/ InitExclusion \/ InitMerge

Next ==
    \/ \E task_label \in pending : ExcludeTask(task_label)
    \/ StartPropagation
    \/ \E label \in unvisited : VisitTask(label)
    \/ ExistenceCheck
    \/ InferInjectionPipeline
    \/ MergeInjectionPipeline

Spec == Init /\ [][Next]_vars

----------------------------------------------------------------------------
(* What the claims speak of.                                               *)

\* The exclusion pass is over and the merge has not run.
AfterExclusion == pc \in {"propagate", "infer", "merge"}

\* The propagation loop has visited every task.
PropagationOver == (pc = "propagate" /\ unvisited = {}) \/ pc \in {"infer", "merge", "done"}

\* The call returned with an injection task merged in.
Merged == pc = "done" /\ Truthy(injection_pipeline)

MergedLabel == CHOOSE l \in DOMAIN injection_pipeline.tasks : TRUE

\* The override record of a task of the pipeline being edited.
Config(label) == pipeline.tasks[label].config

\* The field of the task carries the override prefix + its name.
Renamed(label, field) ==
    /\ ConnectionKey(field) \in DOMAIN Config(label)
    /\ Config(label)[ConnectionKey(field)] = prefix \o Conn(expanded[label], field)

InputNames(label) == Range(expanded[label].inputs)

OutputNames(label) == Range(expanded[label].outputs)

\* The step visits task T.
Visits(T) == pc = "propagate" /\ T \in unvisited /\ unvisited' = unvisited \ {T}

\* The subsets as the exclusion pass leaves them.
SubsetsAfterExclusion ==
    [s \in DOMAIN reference_pipeline.subsets |->
        reference_pipeline.subsets[s] \ excluded_tasks]

\* The least set that holds the seed and the outputs of every task among
\* labels with an input in the set.
RECURSIVE Downstream(_, _)
Downstream(labels, names) ==
    LET more == names \cup UNION {OutputNames(l) :
                                   l \in {x \in labels : InputNames(x) \cap names # {}}}
    IN IF more = names THEN names ELSE Downstream(labels, more)

StaticLabels == {l \in DOMAIN expanded : expanded[l].taskClass = "PipelineTask"}

AnalysisLabels == DOMAIN expanded \ StaticLabels

ExclusionWarnings == SelectSeq(log, LAMBDA r :
                         r.msg = "marked for exclusion not found in the reference pipeline")

----------------------------------------------------------------------------
(* C1 as stated: whichever task T the loop visits, every output binding of *)
(* T carries the override prefix + name after the visit if and only if     *)
(* some input name of T is in the injected-type set at the visit.          *)
C1_AsStated ==
    [][\A T \in DOMAIN expanded :
          Visits(T) =>
              ((\A f \in DOMAIN expanded[T].outputs : Renamed(T, f)')
                   <=> (InputNames(T) \cap injected_types # {}))]_vars

\* The scenario of section 8 with its expected result.
ChainCall ==
    /\ reference_pipeline.tasks = ChainTasks
    /\ excluded_tasks = {}
    /\ dataset_type_name = "calexp"

ChainResult ==
    /\ Config("A") = EmptyMap
    /\ Config("B") = [k \in {"connections.in1", "connections.out"} |->
                         IF k = "connections.in1" THEN "injected_calexp" ELSE "injected_src"]
    /\ Config("C") = [k \in {"connections.in1", "connections.out"} |->
                         IF k = "connections.in1" THEN "injected_src" ELSE "injected_srcMatch"]
    /\ Config("D") = EmptyMap
    /\ precursor_injection_task_labels = {"A"}

(* C1, amended: whichever task T the loop visits, an output binding of T   *)
(* carries the override prefix + name after the visit if and only if T is  *)
(* not an analysis task, the binding is an attribute of T's connections    *)
(* class, and some input name of T is in the injected-type set at the      *)
(* visit; and the chain scenario ends with B's and C's inputs and outputs  *)
(* prefixed, precursor labels {A}, and no override on D.                   *)
C1_Reachability ==
    /\ [](ChainCall /\ PropagationOver => ChainResult)
    /\ [][\A T \in DOMAIN expanded :
             Visits(T) =>
                 \A f \in DOMAIN expanded[T].outputs :
                     Renamed(T, f)' <=>
                         /\ expanded[T].taskClass = "PipelineTask"
                         /\ f \in expanded[T].ConnectionsClass
                         /\ InputNames(T) \cap injected_types # {}]_vars

C1_Witness == ChainCall /\ pc = "infer" /\ ChainResult

(* C2: a call whose seed is in no task's bindings ends in the fatal error  *)
(* of the existence check, with the Pipeline that was handed in unchanged: *)
(* the same tasks, subsets and override records.                           *)
SeedAbsent ==
    \A l \in DOMAIN reference_pipeline.tasks :
        LET taskDef == TaskDef(l, reference_pipeline.tasks[l])
        IN dataset_type_name \notin Range(taskDef.inputs) \cup Range(taskDef.outputs)

C2_NoMutationOnError ==
    SeedAbsent =>
        /\ pc \notin {"infer", "merge", "done"}
        /\ pc = "error" => pipeline = reference_pipeline

(* C3: with an injection pipeline supplied and the seed in the pipeline, a *)
(* call never returns when the supplied pipeline has 0 or 2 or more tasks, *)
(* and never fails when it has exactly 1 task whose label is new: it       *)
(* returns only with that task merged in.                                  *)
C3_ArityCheck ==
    (injection_argument.kind # "None" /\ PropagationOver /\ SeedFound) =>
        IF PipelineLen(injection_argument) # 1
        THEN pc # "done"
        ELSE DOMAIN injection_argument.tasks \cap DOMAIN expanded = {} =>
                 /\ pc # "error"
                 /\ pc = "done" => DOMAIN injection_argument.tasks \subseteq DOMAIN pipeline.tasks

(* C4: after a merge, the injection task's input_exposure resolves to the  *)
(* seed and its output_exposure to prefix + seed.                          *)
C4_BoundaryRewrite ==
    Merged =>
        LET task == pipeline.tasks[MergedLabel]
        IN /\ ConnectionName(task, task.inputs, "input_exposure") = dataset_type_name
           /\ ConnectionName(task, task.outputs, "output_exposure")
                  = "injected_" \o dataset_type_name

\* A merge of a task that declared other names, beside tasks that propagation renamed.
C4_Witness ==
    /\ Merged
    /\ pipeline.tasks[MergedLabel].inputs["input_exposure"] # dataset_type_name
    /\ pipeline.tasks[MergedLabel].outputs["output_exposure"] # "injected_" \o dataset_type_name
    /\ \E l \in DOMAIN expanded \cap DOMAIN pipeline.tasks : Config(l) # EmptyMap

C6_ExclusionInvariant ==
    /\ pc # "exclude" =>
           \A s \in DOMAIN pipeline.subsets : pipeline.subsets[s] \subseteq DOMAIN pipeline.tasks
    /\ AfterExclusion => excluded_tasks \cap DOMAIN pipeline.tasks = {}

\* An excluded task that was in both subsets, beside an unknown label.
C6_Witness ==
    /\ AfterExclusion
    /\ \E l \in excluded_tasks :
          \A s \in DOMAIN reference_pipeline.subsets : l \in reference_pipeline.subsets[s]
    /\ \E l \in excluded_tasks : l \notin DOMAIN reference_pipeline.tasks

(* C7: the exclusion pass never fails and logs nothing while it runs; each *)
(* label it has processed is in the not-found set if it was no task and is *)
(* removed from the tasks and the subsets otherwise, with nothing else     *)
(* changed; when the pass is over the log holds one warning naming the     *)
(* not-found labels, or none if there are none, and propagation is next.   *)
C7_UnknownLabels ==
    LET processed == excluded_tasks \ pending
        unknown == {l \in processed : l \notin DOMAIN reference_pipeline.tasks}
    IN /\ pc = "exclude" =>
              /\ error = "none"
              /\ log = <<>>
              /\ not_excluded_tasks = unknown
              /\ pipeline.tasks = Restrict(reference_pipeline.tasks,
                                           DOMAIN reference_pipeline.tasks \ processed)
              /\ pipeline.subsets = [s \in DOMAIN reference_pipeline.subsets |->
                                        reference_pipeline.subsets[s] \ processed]
       /\ pc # "exclude" =>
              /\ pending = {}
              /\ not_excluded_tasks = unknown
              /\ ExclusionWarnings =
                     IF unknown = {} THEN <<>>
                     ELSE <<Warning("marked for exclusion not found in the reference pipeline",
                                    <<IF Cardinality(unknown) = 1 THEN "Task" ELSE "Tasks",
                                      unknown>>)>>
              /\ DOMAIN expanded = DOMAIN reference_pipeline.tasks \ excluded_tasks

\* A known and an unknown label were excluded and propagation is under way.
C7_Witness ==
    /\ pc = "propagate"
    /\ unvisited # DOMAIN expanded
    /\ Len(ExclusionWarnings) = 1
    /\ \E l \in excluded_tasks : l \in DOMAIN reference_pipeline.tasks
    /\ not_excluded_tasks # {}

(* C8: from the start of the propagation pass on, the injected-type set    *)
(* holds the seed, and no step of the pass removes a name from it.         *)
C8_Monotonic ==
    /\ [](pc # "exclude" => dataset_type_name \in injected_types)
    /\ [][pc = "propagate" => injected_types \subseteq injected_types']_vars

\* The set has grown twice.
C8_Witness == pc = "propagate" /\ Cardinality(injected_types) >= 3

(* C9 as stated: when the loop is over, the injected-type set is the least *)
(* set that holds the seed and the outputs of every task with an input in  *)
(* the set.                                                                *)
C9_AsStated ==
    PropagationOver => injected_types = Downstream(DOMAIN expanded, {dataset_type_name})

(* C9, amended: when the loop is over, whichever topological order it      *)
(* took, the injected-type set is the least set that holds the seed and    *)
(* the outputs of every task that is not an analysis task and has an input *)
(* in the set.                                                             *)
C9_Closure ==
    PropagationOver => injected_types = Downstream(StaticLabels, {dataset_type_name})

\* Three names downstream of the seed, and an analysis task that consumes one.
C9_Witness ==
    /\ PropagationOver
    /\ Cardinality(injected_types) >= 3
    /\ \E l \in AnalysisLabels : InputNames(l) \cap injected_types # {}

(* C10: an analysis task the loop has visited has one override more than   *)
(* it came with, connections.outputName set to prefix + its outputName;    *)
(* and the step that visits it changes nothing of the catalog, the         *)
(* precursor labels or the injected-type set.                              *)
C10_AnalysisTasks ==
    /\ [](\A T \in AnalysisLabels \cap DOMAIN pipeline.tasks :
             (pc # "exclude" /\ T \notin unvisited) =>
                 Config(T) = Put(reference_pipeline.tasks[T].config,
                                 "connections.outputName",
                                 "injected_" \o expanded[T].outputName))
    /\ [][\A T \in AnalysisLabels :
             Visits(T) =>
                 /\ all_connection_type_names' = all_connection_type_names
                 /\ precursor_injection_task_labels' = precursor_injection_task_labels
                 /\ injected_types' = injected_types]_vars

\* A visited analysis task with no input downstream of the seed, and one with.
C10_Witness ==
    /\ PropagationOver
    /\ \E T \in AnalysisLabels :
          /\ InputNames(T) \cap injected_types = {}
          /\ Config(T) = One("connections.outputName", "injected_" \o expanded[T].outputName)

====
